---- MODULE Spec2Model ----
(***************************************************************************)
(* Model of recurring_tasks.py: the reconciliation run over the task       *)
(* directory.  One run lists the directory, and for every non-hidden file  *)
(* loads the record, normalises it, asks the remote service about the      *)
(* record's current instance, closes it out and/or spawns a new instance,  *)
(* and writes the record back through a temporary file and a rename.       *)
(*                                                                         *)
(* Python values are modelled as follows:                                  *)
(*   dict       a function whose domain is the set of keys present         *)
(*   None       the record None                                            *)
(*   datetime   [wall, aware, off]: wall-clock seconds, whether a tzinfo   *)
(*              is attached, and the UTC offset of that tzinfo in seconds  *)
(*   str        a string                                                   *)
(*   file name  a sequence of name parts, so that startswith is decidable  *)
(***************************************************************************)
EXTENDS Integers, Sequences, FiniteSets, TLC

VARIABLES
    dir,        \* the task directory: file name -> file content
    remote,     \* the remote service's todos, indexed by id
    tags,       \* the remote service's tag names
    now,        \* the wall clock, seconds (UTC instant)
    ticks,      \* how many times the clock has advanced
    pc,         \* position of the run in the __main__ block
    listing,    \* names of os.listdir() not yet iterated
    filename,   \* the loop variable
    task_data,  \* the loaded record being reconciled
    temp_path,  \* the temporary file of the cycle
    before,     \* history: content at file_path when the cycle started
    observed,   \* history: what the fetch of this cycle reported
    closed,     \* history: in-memory record right after the close-out
    created,    \* history: ids created by Todo.new in this cycle
    done,       \* history: names whose cycle completed in this run
    skipped,    \* history: names the scan skipped in this run
    failure     \* history: how the last run ended

vars == <<dir, remote, tags, now, ticks, pc, listing, filename, task_data,
          temp_path, before, observed, closed, created, done, skipped,
          failure>>

(***************************************************************************)
(* Program constants                                                       *)
(***************************************************************************)
SECONDS_PER_DAY == 60 * 60 * 24

RECURRING_TAG_NAME == "recurring"

HTTP_NOT_FOUND == 404

(***************************************************************************)
(* Bounds of the model                                                     *)
(***************************************************************************)
MaxTicks == 1           \* clock advances in one behaviour

MaxInstances == 3       \* todos the remote service will hold

MaxTemp == 1            \* distinct random names mkstemp can draw

(***************************************************************************)
(* Python values                                                           *)
(***************************************************************************)
None == [py |-> "None"]

Put(d, k, v) == [x \in (DOMAIN d) \cup {k} |-> IF x = k THEN v ELSE d[x]]

Pop(d, k) == [x \in (DOMAIN d) \ {k} |-> d[x]]

\* datetime values
Aware(wall, off) == [wall |-> wall, aware |-> TRUE, off |-> off]

Naive(wall) == [wall |-> wall, aware |-> FALSE, off |-> 0]

Instant(ts) == ts.wall - ts.off

\* a slip: the timestamp is taken for London summer time and converted to
\* UTC instead of being labelled
replace_tzinfo_after_shift(ts) == Aware(ts.wall - 60 * 60, 0)

\* datetime.replace(tzinfo=datetime.timezone.utc): the wall-clock fields are
\* kept and the tzinfo is replaced
replace_tzinfo_utc(ts) == Aware(ts.wall, 0)

\* Europe/London: one hour ahead of UTC until summer time ends
SummerTimeEnd == SECONDS_PER_DAY

utcoffset(t) == IF t < SummerTimeEnd THEN 60 * 60 ELSE 0

\* datetime.datetime.now(TZ)
datetime_now(t) == Aware(t + utcoffset(t), utcoffset(t))

\* datetime + timedelta(seconds=s)
plus_seconds(ts, s) == [ts EXCEPT !.wall = @ + s]

\* a timestamp as the HabitRPG API reports it (with timezone information)
api_time(t) == Aware(t, 0)

\* random.randint(a, b): any integer of the closed range
randint(a, b) == a .. b

(***************************************************************************)
(* Exceptions: an operator that can raise yields Raise(e) instead of a     *)
(* value.                                                                  *)
(***************************************************************************)
Raise(e) == [raise |-> e]

Raised(v) == "raise" \in DOMAIN v

(***************************************************************************)
(* Files                                                                   *)
(***************************************************************************)
\* what mkstemp leaves at the new path: an empty file
EmptyFile == [file |-> "empty"]

\* a file whose writer stopped before the document was complete
PartialFile == [file |-> "partial"]

\* a temporary file whose process is gone: no later step of any run opens a
\* file it did not name itself, so what such a file holds is not kept
AbandonedFile == [file |-> "abandoned"]

IsDocument(c) == "file" \notin DOMAIN c

\* yaml.safe_dump: timestamps are written with their UTC offset, a tuple is
\* written as a list; every other value is written as it is
yaml_safe_dump(data) == data

\* the YAML loader converts a timestamp to UTC and drops the timezone
\* information
load_timestamp(ts) == IF ts.aware THEN Naive(ts.wall - ts.off) ELSE ts

load_instance(d) ==
    IF d = None THEN None
    ELSE [k \in DOMAIN d |->
            IF k \in {"created", "completed"} THEN load_timestamp(d[k])
            ELSE d[k]]

\* yaml.safe_load of a dumped record
yaml_safe_load(c) ==
    [k \in DOMAIN c |->
        CASE k \in {"current", "previous"} -> load_instance(c[k])
          [] k = "next" -> IF c[k] = None THEN None ELSE load_timestamp(c[k])
          [] OTHER -> c[k]]

\* filename.startswith('.')
startswith_dot(name) == Len(name) > 0 /\ name[1] = "."

\* a slip: the temporary file is made without the '.' prefix
temp_name_visible(r) == <<"tmp", r, ".tmp">>

\* mkstemp(suffix='.tmp', prefix='.', dir=TASK_DIRECTORY): the name drawn
temp_name(r) == <<".", r, ".tmp">>

NoName == <<>>

(***************************************************************************)
(* Normalisation of a loaded record (lines 75-121)                         *)
(***************************************************************************)
fix_current(d) ==
    IF "current" \notin DOMAIN d THEN Raise("KeyError")
    ELSE IF d["current"] = None THEN d  \* TypeError, passed over
    ELSE IF "created" \notin DOMAIN d["current"] THEN Raise("KeyError")
    ELSE [d EXCEPT !["current"]["created"] = replace_tzinfo_utc(@)]

\* a slip: the loaded timestamp is read as London summer time, not as UTC
fix_next_as_local(d) ==
    IF "next" \notin DOMAIN d THEN Raise("KeyError")
    ELSE IF d["next"] = None THEN d
    ELSE [d EXCEPT !["next"] = Aware(@.wall, 60 * 60)]

fix_next(d) ==
    IF "next" \notin DOMAIN d THEN Raise("KeyError")
    ELSE IF d["next"] = None THEN d  \* AttributeError, passed over
    ELSE [d EXCEPT !["next"] = replace_tzinfo_utc(@)]

fix_previous(d) ==
    IF "previous" \notin DOMAIN d THEN Raise("KeyError")
    ELSE IF d["previous"] = None THEN d  \* TypeError, passed over
    ELSE IF "created" \notin DOMAIN d["previous"] THEN Raise("KeyError")
    ELSE IF "completed" \notin DOMAIN d["previous"] THEN Raise("KeyError")
    ELSE [d EXCEPT !["previous"]["created"] = replace_tzinfo_utc(@),
                   !["previous"]["completed"] = replace_tzinfo_utc(@)]

add_notes(d) == IF "notes" \in DOMAIN d THEN d ELSE Put(d, "notes", None)

text_to_title(d) ==
    IF "text" \notin DOMAIN d THEN d
    ELSE Put(Pop(d, "text"), "title", d["text"])

add_checklist(d) ==
    IF "checklist" \in DOMAIN d THEN d ELSE Put(d, "checklist", <<>>)

convert_repeat(d) ==
    IF "repeat" \notin DOMAIN d THEN Raise("KeyError")
    ELSE IF d["repeat"] = None THEN Raise("TypeError")
    ELSE IF "min" \in DOMAIN d["repeat"]
         THEN IF "max" \notin DOMAIN d["repeat"] THEN Raise("KeyError")
              ELSE [d EXCEPT !["repeat"] =
                      [k \in {"on completion", "on deletion"} |->
                          IF k = "on completion"
                          THEN [k2 \in {"min", "max"} |-> d["repeat"][k2]]
                          ELSE None]]
    ELSE d

normalize(d) ==
    LET d1 == fix_current(d) IN
    IF Raised(d1) THEN d1 ELSE
    LET d2 == fix_next(d1) IN
    IF Raised(d2) THEN d2 ELSE
    LET d3 == fix_previous(d2) IN
    IF Raised(d3) THEN d3 ELSE
    convert_repeat(add_checklist(text_to_title(add_notes(d3))))

(***************************************************************************)
(* The remote service as the run sees it                                   *)
(***************************************************************************)
\* what task.fetch() can come back with for the todo with this id
Responses(id) ==
    {[kind |-> "HTTPError", status_code |-> 500], [kind |-> "ConnectionError"]}
    \cup
    (IF id \notin DOMAIN remote \/ remote[id].status = "deleted"
     THEN {[kind |-> "HTTPError", status_code |-> HTTP_NOT_FOUND]}
     ELSE {[kind |-> "ok",
            completed |-> (remote[id].status = "completed"),
            date_completed |-> remote[id].completed]})

(***************************************************************************)
(* Reconciliation of the current instance (lines 123-146)                  *)
(***************************************************************************)
\* a slip: only the upper end of the range is converted to seconds
delay_range_min_in_days(policy) ==
    randint(policy["min"], policy["max"] * SECONDS_PER_DAY)

\* the argument range of randint for one repeat policy
delay_range(policy) ==
    randint(policy["min"] * SECONDS_PER_DAY, policy["max"] * SECONDS_PER_DAY)

\* a slip: a missing policy is taken for "no delay"
on_not_found_default_delay(data, t, s) ==
    LET moved == [data EXCEPT !["previous"] = data["current"],
                              !["current"] = None]
        policy == data["repeat"]["on deletion"]
    IN  IF policy = None
        THEN [moved EXCEPT !["next"] = datetime_now(t)]
        ELSE IF s \notin delay_range(policy) THEN Raise("ValueError")
        ELSE [moved EXCEPT !["next"] = plus_seconds(datetime_now(t), s)]

\* lines 130-136: the todo is gone; s is the value randint returned
on_not_found(data, t, s) ==
    LET moved == [data EXCEPT !["previous"] = data["current"],
                              !["current"] = None]
        policy == data["repeat"]["on deletion"]
    IN  IF policy = None THEN Raise("TypeError")
        ELSE IF s \notin delay_range(policy) THEN Raise("ValueError")
        ELSE [moved EXCEPT !["next"] = plus_seconds(datetime_now(t), s)]

\* a slip: the completion branch counts from the time of the run, as the
\* deletion branch does
on_completed_from_now(data, resp, s) ==
    LET moved == [data EXCEPT
                    !["previous"] = Put(data["current"], "completed",
                                        resp.date_completed),
                    !["current"] = None]
        policy == data["repeat"]["on completion"]
    IN  IF policy = None THEN Raise("TypeError")
        ELSE IF s \notin delay_range(policy) THEN Raise("ValueError")
        ELSE [moved EXCEPT !["next"] = plus_seconds(datetime_now(now), s)]

\* lines 139-146: the todo is completed; s is the value randint returned
on_completed(data, resp, s) ==
    LET moved == [data EXCEPT
                    !["previous"] = Put(data["current"], "completed",
                                        resp.date_completed),
                    !["current"] = None]
        policy == data["repeat"]["on completion"]
    IN  IF policy = None THEN Raise("TypeError")
        ELSE IF s \notin delay_range(policy) THEN Raise("ValueError")
        ELSE [moved EXCEPT !["next"] = plus_seconds(resp.date_completed, s)]

\* a slip: every HTTP error is taken for "not found"
resolve_any_http_error(data, resp, t, s) ==
    IF resp.kind = "ConnectionError" THEN Raise("ConnectionError")
    ELSE IF resp.kind = "HTTPError" THEN on_not_found(data, t, s)
    ELSE IF resp.completed THEN on_completed(data, resp, s)
    ELSE data

\* lines 125-146 for one response of the service
resolve(data, resp, t, s) ==
    IF resp.kind = "ConnectionError" THEN Raise("ConnectionError")
    ELSE IF resp.kind = "HTTPError"
         THEN IF resp.status_code # HTTP_NOT_FOUND THEN Raise("HTTPError")
              ELSE on_not_found(data, t, s)
    ELSE IF resp.completed THEN on_completed(data, resp, s)
    ELSE data

\* the values randint can return on the way through resolve; 0 stands for
\* "randint is not called" and for an empty range
draws(data, resp) ==
    LET policy ==
          IF resp.kind = "HTTPError" /\ resp.status_code = HTTP_NOT_FOUND
          THEN data["repeat"]["on deletion"]
          ELSE IF resp.kind = "ok" /\ resp.completed
          THEN data["repeat"]["on completion"]
          ELSE None
    IN  IF policy = None \/ delay_range(policy) = {} THEN {0}
        ELSE delay_range(policy)

\* a slip: a record without next counts as due
is_due_or_unset(data, t) ==
    data["next"] = None \/ Instant(datetime_now(t)) >= Instant(data["next"])

\* line 148-149
is_due(data, t) ==
    data["next"] # None /\ Instant(datetime_now(t)) >= Instant(data["next"])

\* a slip: the new instance is not given the recurring tag
new_todo_untagged(data, t, owner) ==
    [status |-> "open", created |-> api_time(t), completed |-> None,
     title |-> data["title"], notes |-> data["notes"],
     checklist |-> IF Len(data["checklist"]) = 0 THEN None
                   ELSE [i \in DOMAIN data["checklist"] |->
                            <<data["checklist"][i], FALSE>>],
     tags |-> {}, owner |-> owner]

\* lines 151-158: the todo Todo.new asks the service for
new_todo(data, t, owner) ==
    [status |-> "open", created |-> api_time(t), completed |-> None,
     title |-> data["title"], notes |-> data["notes"],
     checklist |-> IF Len(data["checklist"]) = 0 THEN None
                   ELSE [i \in DOMAIN data["checklist"] |->
                            <<data["checklist"][i], FALSE>>],
     tags |-> {RECURRING_TAG_NAME}, owner |-> owner]

\* a slip: next is not cleared when the new instance becomes current
spawned_keeps_next(data, id, todo) ==
    [data EXCEPT !["current"] = [id |-> id, created |-> todo.created]]

\* lines 159-161
spawned(data, id, todo) ==
    [data EXCEPT !["current"] = [id |-> id, created |-> todo.created],
                 !["next"] = None]

(***************************************************************************)
(* Initial state: every record was bootstrapped by create_recurring_task   *)
(* (lines 20-44) and its repeat policy possibly edited by the operator.    *)
(***************************************************************************)
Files == {<<"a">>, <<"b">>}

OneFile == {<<"a">>}

\* a fixed interval of d days
interval(d) == [k \in {"min", "max"} |-> d]

\* the slots of the repeat policy the records of Spec start with: absent,
\* no delay, a delay of one day
Policies == {None, interval(0), interval(1)}

\* the notes and the checklist create_recurring_task was called with (line
\* 21): record "a" has both, record "b" has the defaults
notes_of(f) == IF f = <<"a">> THEN "n" ELSE None

checklist_of(f) == IF f = <<"a">> THEN <<"c1", "c2">> ELSE None

\* the todo of the bootstrap, lines 24-30
first_todo(f) ==
    [status |-> "open", created |-> api_time(0), completed |-> None,
     title |-> f[1], notes |-> notes_of(f),
     checklist |-> IF checklist_of(f) # None
                   THEN [i \in DOMAIN checklist_of(f) |->
                            <<checklist_of(f)[i], FALSE>>]
                   ELSE None,
     tags |-> {RECURRING_TAG_NAME}, owner |-> f]

\* task_data of the bootstrap, lines 31-41
bootstrapped(f, id, oncompletion, ondeletion) ==
    [k \in {"current", "next", "previous", "repeat", "title", "notes",
            "checklist"} |->
        CASE k = "current" -> [id |-> id, created |-> api_time(0)]
          [] k = "next" -> None
          [] k = "previous" -> None
          [] k = "repeat" -> [k2 \in {"on deletion", "on completion"} |->
                                IF k2 = "on deletion" THEN ondeletion
                                ELSE oncompletion]
          [] k = "title" -> f[1]
          [] k = "notes" -> notes_of(f)
          [] k = "checklist" -> IF checklist_of(f) = None THEN <<>>
                                ELSE checklist_of(f)]

id_of(f) == IF f = <<"a">> THEN 1 ELSE 2

NoFailure == [kind |-> "none", at |-> "idle"]

InitWith(F, P) ==
    /\ \E oc \in [F -> P], od \in [F -> P] :
          dir = [f \in F |->
                    yaml_safe_dump(bootstrapped(f, id_of(f), oc[f], od[f]))]
    /\ remote = [i \in 1 .. Cardinality(F) |->
                    first_todo(CHOOSE f \in F : id_of(f) = i)]
    /\ tags = {RECURRING_TAG_NAME}
    /\ now = 0
    /\ ticks = 0
    /\ pc = "idle"
    /\ listing = {}
    /\ filename = NoName
    /\ task_data = None
    /\ temp_path = NoName
    /\ before = None
    /\ observed = None
    /\ closed = None
    /\ created = {}
    /\ done = {}
    /\ skipped = {}
    /\ failure = NoFailure

Init == InitWith(OneFile, Policies)

(***************************************************************************)
(* The run                                                                 *)
(***************************************************************************)
\* an uncaught exception, or the process being stopped: the run ends where
\* it is and nothing it held in memory survives
Abort(kind) ==
    /\ pc' = "raised"
    /\ failure' = [kind |-> kind, at |-> pc]
    /\ listing' = {}
    /\ task_data' = None
    /\ temp_path' = NoName

\* line 58-59: the script starts and lists the directory
StartRun ==
    /\ pc = "idle"
    /\ pc' = "scan"
    /\ listing' = DOMAIN dir
    /\ UNCHANGED <<dir, remote, tags, now, ticks, filename, task_data,
                   temp_path, before, observed, closed, created, done,
                   skipped, failure>>

\* lines 59-61: the loop takes a hidden name and skips it
SkipHidden ==
    /\ pc = "scan"
    /\ \E name \in listing :
          /\ startswith_dot(name)
          /\ listing' = listing \ {name}
          /\ filename' = name
          /\ skipped' = skipped \cup {name}
    /\ UNCHANGED <<dir, remote, tags, now, ticks, pc, task_data, temp_path,
                   before, observed, closed, created, done, failure>>

\* lines 59-121: the loop takes a record, loads it and normalises it
LoadRecord ==
    /\ pc = "scan"
    /\ \E name \in listing :
          /\ ~startswith_dot(name)
          /\ IsDocument(dir[name])
          /\ ~Raised(normalize(yaml_safe_load(dir[name])))
          /\ listing' = listing \ {name}
          /\ filename' = name
          /\ before' = dir[name]
          /\ task_data' = normalize(yaml_safe_load(dir[name]))
    /\ pc' = "resolve"
    /\ observed' = None
    /\ closed' = None
    /\ created' = {}
    /\ UNCHANGED <<dir, remote, tags, now, ticks, temp_path, done, skipped, failure>>

\* lines 59-121: loading or normalising the record raises
LoadRaises ==
    /\ pc = "scan"
    /\ \E name \in listing :
          /\ ~startswith_dot(name)
          /\ IF IsDocument(dir[name])
             THEN Raised(normalize(yaml_safe_load(dir[name])))
             ELSE TRUE
          /\ filename' = name
          /\ before' = dir[name]
    /\ observed' = None
    /\ closed' = None
    /\ created' = {}
    /\ Abort("MalformedRecord")
    /\ UNCHANGED <<dir, remote, tags, now, ticks, done, skipped>>

\* the process is gone, and with it what it knew of its run
Exited ==
    /\ pc' = "idle"
    /\ dir' = [n \in DOMAIN dir |->
                IF startswith_dot(n) THEN AbandonedFile ELSE dir[n]]
    /\ filename' = NoName
    /\ before' = None
    /\ observed' = None
    /\ closed' = None
    /\ created' = {}
    /\ done' = {}
    /\ skipped' = {}
    /\ failure' = NoFailure
    /\ UNCHANGED <<remote, tags, now, ticks, listing, task_data, temp_path>>

\* line 59: the listing is exhausted and the script ends
EndRun ==
    /\ pc = "scan"
    /\ listing = {}
    /\ Exited

\* the run that raised, or was stopped, has ended
Exit ==
    /\ pc = "raised"
    /\ Exited

\* line 123: the record has no current instance
NoFetch ==
    /\ pc = "resolve"
    /\ task_data["current"] = None
    /\ pc' = "due"
    /\ UNCHANGED <<dir, remote, tags, now, ticks, listing, filename,
                   task_data, temp_path, before, observed, closed, created,
                   done, skipped, failure>>

\* lines 123-146: the current instance is fetched and, if it is completed
\* or gone, closed out
Fetch ==
    /\ pc = "resolve"
    /\ task_data["current"] # None
    /\ \E resp \in Responses(task_data["current"]["id"]) :
       \E s \in draws(task_data, resp) :
          /\ ~Raised(resolve(task_data, resp, now, s))
          /\ task_data' = resolve(task_data, resp, now, s)
          /\ observed' = resp
          /\ closed' = resolve(task_data, resp, now, s)
    /\ pc' = "due"
    /\ UNCHANGED <<dir, remote, tags, now, ticks, listing, filename,
                   temp_path, before, created, done, skipped, failure>>

\* lines 123-146: the fetch or the close-out raises
FetchRaises ==
    /\ pc = "resolve"
    /\ task_data["current"] # None
    /\ \E resp \in Responses(task_data["current"]["id"]) :
       \E s \in draws(task_data, resp) :
          /\ Raised(resolve(task_data, resp, now, s))
          /\ observed' = resp
          /\ Abort(IF resolve(task_data, resp, now, s) = Raise("TypeError")
                   THEN "ConfigurationError" ELSE "RemoteUnavailable")
    /\ UNCHANGED <<dir, remote, tags, now, ticks, filename, before, closed,
                   created, done, skipped>>

\* lines 148-149: is a new instance due?
DueCheck ==
    /\ pc = "due"
    /\ pc' = IF is_due(task_data, now) THEN "new" ELSE "mkstemp"
    /\ UNCHANGED <<dir, remote, tags, now, ticks, listing, filename,
                   task_data, temp_path, before, observed, closed, created,
                   done, skipped, failure>>

\* get_recurring_tag (lines 46-55): the tag of this name is found among the
\* user's tags, or created
get_recurring_tag(user_tags) == user_tags \cup {RECURRING_TAG_NAME}

\* lines 150-161: the new instance is created and becomes current
TodoNew ==
    /\ pc = "new"
    /\ Len(remote) < MaxInstances
    /\ LET id == Len(remote) + 1
           todo == new_todo(task_data, now, filename)
       IN  /\ remote' = Append(remote, todo)
           /\ task_data' = spawned(task_data, id, todo)
           /\ created' = created \cup {id}
    /\ tags' = get_recurring_tag(tags)
    /\ pc' = "mkstemp"
    /\ UNCHANGED <<dir, now, ticks, listing, filename, temp_path,
                   before, observed, closed, done, skipped, failure>>

\* lines 150-158: a call to the service raises
RemoteRaises ==
    /\ pc = "new"
    /\ Abort("RemoteUnavailable")
    /\ UNCHANGED <<dir, remote, tags, now, ticks, filename, before, observed,
                   closed, created, done, skipped>>

\* lines 166-167: the temporary file is created, empty, under a hidden name
\* that is not in use; which of the unused names is drawn makes no
\* difference to the run, and the first of them stands for all
Mkstemp ==
    /\ pc = "mkstemp"
    /\ \E r \in 1 .. MaxTemp :
          /\ temp_name(r) \notin DOMAIN dir
          /\ \A q \in 1 .. (r - 1) : temp_name(q) \in DOMAIN dir
          /\ dir' = Put(dir, temp_name(r), EmptyFile)
          /\ temp_path' = temp_name(r)
    /\ pc' = "dump"
    /\ UNCHANGED <<remote, tags, now, ticks, listing, filename, task_data,
                   before, observed, closed, created, done, skipped, failure>>

\* a slip: the record is written over the record's own file
Dump_in_place ==
    /\ pc = "dump"
    /\ dir' = [dir EXCEPT ![filename] = yaml_safe_dump(task_data)]
    /\ pc' = "rename"
    /\ UNCHANGED <<remote, tags, now, ticks, listing, filename, task_data,
                   temp_path, before, observed, closed, created, done,
                   skipped, failure>>

\* lines 168-169: the record is written to the temporary file
Dump ==
    /\ pc = "dump"
    /\ dir' = [dir EXCEPT ![temp_path] = yaml_safe_dump(task_data)]
    /\ pc' = "rename"
    /\ UNCHANGED <<remote, tags, now, ticks, listing, filename, task_data,
                   temp_path, before, observed, closed, created, done,
                   skipped, failure>>

\* lines 168-169: the write stops part-way
DumpRaises ==
    /\ pc = "dump"
    /\ dir' = [dir EXCEPT ![temp_path] = PartialFile]
    /\ Abort("PersistenceError")
    /\ UNCHANGED <<remote, tags, now, ticks, filename, before, observed,
                   closed, created, done, skipped>>

\* line 170: the temporary file is moved over the record
Rename ==
    /\ pc = "rename"
    /\ dir' = Pop(Put(dir, filename, dir[temp_path]), temp_path)
    /\ done' = done \cup {filename}
    /\ temp_path' = NoName
    /\ task_data' = None
    /\ pc' = "scan"
    /\ UNCHANGED <<remote, tags, now, ticks, listing, filename, before,
                   observed, closed, created, skipped, failure>>

\* lines 166-170: mkstemp or os.rename raises
PersistenceRaises ==
    /\ pc \in {"mkstemp", "rename"}
    /\ Abort("PersistenceError")
    /\ UNCHANGED <<dir, remote, tags, now, ticks, filename, before, observed,
                   closed, created, done, skipped>>

\* the process is stopped between two steps of a cycle; where a step can
\* raise, being stopped before it leaves what its raising leaves
Kill ==
    /\ pc \in {"due", "dump"}
    /\ Abort("killed")
    /\ UNCHANGED <<dir, remote, tags, now, ticks, filename, before, observed,
                   closed, created, done, skipped>>

(***************************************************************************)
(* The environment: the user of the remote service, and the clock.  The    *)
(* run reads the service and the clock at the fetch, at the due check and  *)
(* at Todo.new; a change of the environment at any other position of the   *)
(* run is the same change made just before the next of these steps, or     *)
(* after the run.                                                          *)
(***************************************************************************)
Observing == {"idle", "resolve", "due", "new"}

DeletedTodo == [status |-> "deleted"]

\* the user ticks a todo off
RemoteComplete ==
    \E i \in DOMAIN remote :
        /\ pc \in Observing
        /\ remote[i].status = "open"
        /\ remote' = [remote EXCEPT ![i].status = "completed",
                                    ![i].completed = api_time(now)]
        /\ UNCHANGED <<dir, tags, now, ticks, pc, listing, filename,
                       task_data, temp_path, before, observed, closed,
                       created, done, skipped, failure>>

\* the user deletes a todo, open or completed: the service keeps nothing of
\* it
RemoteDelete ==
    \E i \in DOMAIN remote :
        /\ pc \in Observing
        /\ remote[i].status # "deleted"
        /\ remote' = [remote EXCEPT ![i] = DeletedTodo]
        /\ UNCHANGED <<dir, tags, now, ticks, pc, listing, filename,
                       task_data, temp_path, before, observed, closed,
                       created, done, skipped, failure>>

ClockSteps == {SECONDS_PER_DAY}

\* time passes
Tick ==
    /\ pc \in Observing
    /\ ticks < MaxTicks
    /\ \E dt \in ClockSteps : now' = now + dt
    /\ ticks' = ticks + 1
    /\ UNCHANGED <<dir, remote, tags, pc, listing, filename, task_data,
                   temp_path, before, observed, closed, created, done,
                   skipped, failure>>

Next ==
    \/ StartRun
    \/ SkipHidden
    \/ LoadRecord
    \/ LoadRaises
    \/ EndRun
    \/ Exit
    \/ NoFetch
    \/ Fetch
    \/ FetchRaises
    \/ DueCheck
    \/ TodoNew
    \/ RemoteRaises
    \/ Mkstemp
    \/ Dump
    \/ DumpRaises
    \/ Rename
    \/ PersistenceRaises
    \/ Kill
    \/ RemoteComplete
    \/ RemoteDelete
    \/ Tick

Spec == Init /\ [][Next]_vars

(***************************************************************************)
(* The run over a directory of two records                                 *)
(***************************************************************************)
\* both records reschedule a day after a completion and after a deletion
InitDir == InitWith(Files, {interval(1)})

SpecDir == InitDir /\ [][Next]_vars

(***************************************************************************)
(* The reschedule computation on its own: one Live record whose instance   *)
(* is about to be fetched, for every repeat interval up to ReschedMaxDays  *)
(* days and every state of the instance.                                   *)
(***************************************************************************)
ReschedMaxDays == 1

Intervals ==
    {[k \in {"min", "max"} |-> IF k = "min" THEN lo ELSE hi] :
        lo \in 0 .. ReschedMaxDays, hi \in 0 .. ReschedMaxDays}

ValidIntervals == {p \in Intervals : p["min"] <= p["max"]}

InitResched ==
    /\ \E policy \in ValidIntervals :
          dir = [f \in OneFile |->
                    yaml_safe_dump(bootstrapped(f, id_of(f), policy, policy))]
    /\ \E st \in {"open", "completed", "deleted"} :
          remote = [i \in 1 .. 1 |->
                      [first_todo(<<"a">>) EXCEPT
                          !.status = st,
                          !.completed = IF st = "completed" THEN api_time(0)
                                        ELSE None]]
    /\ tags = {RECURRING_TAG_NAME}
    /\ now = SECONDS_PER_DAY
    /\ ticks = 1
    /\ pc = "resolve"
    /\ listing = {}
    /\ filename = <<"a">>
    /\ task_data = normalize(yaml_safe_load(dir[<<"a">>]))
    /\ temp_path = NoName
    /\ before = dir[<<"a">>]
    /\ observed = None
    /\ closed = None
    /\ created = {}
    /\ done = {}
    /\ skipped = {}
    /\ failure = NoFailure

NextResched == Fetch \/ FetchRaises

SpecResched == InitResched /\ [][NextResched]_vars

(***************************************************************************)
(* Vocabulary of the properties                                            *)
(***************************************************************************)
Live(d) == d["current"] # None /\ d["next"] = None

Dormant(d) == d["current"] = None /\ d["next"] # None

\* the positions of a cycle between loading the record and renaming it
InCycle == {"resolve", "due", "new", "mkstemp", "dump", "rename"}

\* the cycle of the record named by filename was renamed into place, and
\* dir[filename] is what it persisted
Persisted == filename \in done

\* the record as the cycle saw it after loading and normalising
loaded == normalize(yaml_safe_load(before))

IsNotFound(resp) ==
    resp # None /\ resp.kind = "HTTPError"
                /\ resp.status_code = HTTP_NOT_FOUND

IsCompleted(resp) == resp # None /\ resp.kind = "ok" /\ resp.completed

IsStillOpen(resp) == resp # None /\ resp.kind = "ok" /\ ~resp.completed

IsFailure(resp) ==
    resp # None /\ ~IsNotFound(resp) /\ resp.kind # "ok"

OpenFor(f) ==
    {i \in DOMAIN remote : remote[i].status = "open" /\ remote[i].owner = f}

(***************************************************************************)
(* C1: a cycle that starts from a Live or a Dormant record and is renamed  *)
(* into place persists a record in which exactly one of current and next   *)
(* is non-null.                                                            *)
(***************************************************************************)
C1_ExactlyOne ==
    (Persisted /\ (Live(loaded) \/ Dormant(loaded)))
        => ((dir[filename]["current"] = None)
                # (dir[filename]["next"] = None))

\* a cycle that closed out a deleted instance and spawned the next one
C1_Witness ==
    /\ Persisted
    /\ Live(loaded)
    /\ IsNotFound(observed)
    /\ created # {}
    /\ Live(dir[filename])

(***************************************************************************)
(* C2: while a cycle is under way, and after it was interrupted or failed  *)
(* at any point before the rename, the record's path holds the content it  *)
(* held when the cycle started; a record's path never holds an empty or a  *)
(* part-written file.                                                      *)
(***************************************************************************)
C2_OldOrNew ==
    /\ pc \in InCycle \cup {"raised"} => dir[filename] = before
    /\ \A f \in DOMAIN dir : ~startswith_dot(f) => IsDocument(dir[f])

\* the rename failed: the new record sits complete in the temporary file
\* and differs from the record, which is untouched
C2_Witness ==
    /\ pc = "raised"
    /\ failure.at = "rename"
    /\ \E t \in DOMAIN dir :
          startswith_dot(t) /\ IsDocument(dir[t]) /\ dir[t] # before
    /\ dir[filename] = before

(***************************************************************************)
(* C3: when the cycle of one record fails with an exception, every other   *)
(* record of the directory has been processed when the run ends.           *)
(***************************************************************************)
C3_Isolated ==
    (pc = "raised" /\ failure.kind \in {"RemoteUnavailable",
                                      "ConfigurationError",
                                      "MalformedRecord", "PersistenceError"})
        => \A f \in DOMAIN dir :
              (~startswith_dot(f) /\ f # filename) => f \in done

(***************************************************************************)
(* C4: a fetch that fails with anything but a 404 is not treated as Gone:  *)
(* the run stops there, no instance was created and the record's file is   *)
(* as it was, still holding its current instance.                          *)
(***************************************************************************)
C4_FailureIsNotGone ==
    IsFailure(observed)
        => /\ pc = "raised"
           /\ failure = [kind |-> "RemoteUnavailable", at |-> "resolve"]
           /\ created = {}
           /\ closed = None
           /\ dir[filename] = before
           /\ dir[filename]["current"] # None

\* the service answered 500 for a record that has an on-deletion policy
C4_Witness ==
    /\ IsFailure(observed)
    /\ observed.kind = "HTTPError"
    /\ loaded["repeat"]["on deletion"] # None
    /\ pc = "raised"

(***************************************************************************)
(* C5: a record that is Live when its cycle starts and whose instance is   *)
(* reported completed or gone ends the cycle Dormant, with next as the     *)
(* close-out computed it, and no instance was created in that cycle.       *)
(***************************************************************************)
C5_OneTransition ==
    (Persisted /\ Live(loaded)
        /\ (IsCompleted(observed) \/ IsNotFound(observed)))
        => /\ Dormant(dir[filename])
           /\ created = {}

(***************************************************************************)
(* C6: no record ever has two open instances that the system created for   *)
(* it.                                                                     *)
(***************************************************************************)
C6_NoSecondInstance == \A f \in Files : Cardinality(OpenFor(f)) <= 1

(***************************************************************************)
(* C7: after a cycle that found the instance gone, the persisted previous  *)
(* holds the closed instance's creation time and a completion time, the    *)
(* observation time, and next is that time plus a delay of the on-deletion *)
(* interval.                                                               *)
(***************************************************************************)
C7_Gone ==
    (Persisted /\ IsNotFound(observed))
        => LET p == dir[filename]["previous"]
               policy == loaded["repeat"]["on deletion"]
           IN  /\ p # None
               /\ Instant(p["created"])
                     = Instant(loaded["current"]["created"])
               /\ "completed" \in DOMAIN p
               /\ \E s \in delay_range(policy) :
                     Instant(closed["next"]) = Instant(p["completed"]) + s

(***************************************************************************)
(* C8: after a cycle that found the instance completed at T, the persisted *)
(* previous holds the closed instance's creation time and T, and the       *)
(* close-out set next to T plus a delay of the on-completion interval.     *)
(***************************************************************************)
C8_Completed ==
    (Persisted /\ IsCompleted(observed))
        => LET p == dir[filename]["previous"]
               T == observed.date_completed
               policy == loaded["repeat"]["on completion"]
           IN  /\ p # None
               /\ Instant(p["created"])
                     = Instant(loaded["current"]["created"])
               /\ "completed" \in DOMAIN p
               /\ Instant(p["completed"]) = Instant(T)
               /\ \E s \in delay_range(policy) :
                     Instant(closed["next"]) = Instant(T) + s

\* the instance was completed before the day of the cycle that observed it
C8_Witness ==
    /\ Persisted
    /\ IsCompleted(observed)
    /\ Instant(observed.date_completed) < now
    /\ "completed" \in DOMAIN dir[filename]["previous"]

\* the repeat policy the close-out of this cycle read
policy_used ==
    IF IsCompleted(observed) THEN loaded["repeat"]["on completion"]
    ELSE loaded["repeat"]["on deletion"]

\* the timestamp the close-out of this cycle counted from, as an instant;
\* the clock of SpecResched stands still, so now is the time of the fetch
anchor == IF IsCompleted(observed) THEN Instant(observed.date_completed)
          ELSE now

Rescheduled ==
    closed # None /\ (IsCompleted(observed) \/ IsNotFound(observed))

(***************************************************************************)
(* C9: on both branches the computed next lies between anchor + min days   *)
(* and anchor + max days, both inclusive, in seconds; with min = max = 0   *)
(* it is the anchor.                                                       *)
(***************************************************************************)
C9_WithinInterval ==
    Rescheduled
        => /\ anchor + policy_used["min"] * 86400 <= Instant(closed["next"])
           /\ Instant(closed["next"]) <= anchor + policy_used["max"] * 86400
           /\ (policy_used["min"] = 0 /\ policy_used["max"] = 0)
                 => Instant(closed["next"]) = anchor

\* the deletion branch drew the largest delay of a proper interval
C9_Witness ==
    /\ Rescheduled
    /\ IsNotFound(observed)
    /\ policy_used["min"] < policy_used["max"]
    /\ Instant(closed["next"]) = now + policy_used["max"] * 86400

(***************************************************************************)
(* C10: the delay between the anchor and the computed next is a whole      *)
(* number of days.                                                         *)
(***************************************************************************)
C10_WholeDays ==
    Rescheduled
        => \E d \in policy_used["min"] .. policy_used["max"] :
              Instant(closed["next"]) - anchor = d * 86400

\* the checklist Todo.new is given for the items of a record: every item
\* unticked, or nothing for an empty list
unticked(items) ==
    IF Len(items) = 0 THEN None
    ELSE [i \in DOMAIN items |-> <<items[i], FALSE>>]

\* the persisted record differs from the loaded one in current and next only
TemplateKept ==
    \A k \in {"title", "notes", "checklist", "repeat", "previous"} :
        dir[filename][k] = loaded[k]

(***************************************************************************)
(* C11: a cycle that loads a Dormant record whose next is not after the    *)
(* clock and is renamed into place has asked the service for exactly one   *)
(* new instance, made of the record's title, notes and checklist and       *)
(* carrying the recurring tag; the persisted record has current = the id   *)
(* and the creation time of that instance and next = null, and its title,  *)
(* notes, checklist, repeat policy and previous are the loaded ones.       *)
(***************************************************************************)
C11_Spawn ==
    (Persisted /\ Dormant(loaded) /\ Instant(loaded["next"]) <= now) =>
        /\ Cardinality(created) = 1
        /\ \A id \in created :
              /\ remote[id].title = loaded["title"]
              /\ remote[id].notes = loaded["notes"]
              /\ remote[id].checklist = unticked(loaded["checklist"])
              /\ remote[id].tags = {RECURRING_TAG_NAME}
              /\ dir[filename]["current"] =
                    [id |-> id, created |-> remote[id].created]
        /\ dir[filename]["next"] = None
        /\ TemplateKept

\* a due Dormant record with a checklist was respawned and persisted
C11_Witness ==
    /\ Persisted /\ Dormant(loaded) /\ Instant(loaded["next"]) <= now
    /\ created # {}
    /\ Len(loaded["checklist"]) > 0
    /\ loaded["previous"] # None

(***************************************************************************)
(* C12: a cycle that loads a Dormant record whose next is after the clock  *)
(* and is renamed into place has made no call to the service, neither a    *)
(* fetch nor a creation, and the persisted record is the loaded and        *)
(* normalised record, whose next is the instant the file held before.      *)
(***************************************************************************)
C12_NotDue ==
    (Persisted /\ Dormant(loaded) /\ now < Instant(loaded["next"])) =>
        /\ observed = None
        /\ created = {}
        /\ dir[filename] = yaml_safe_dump(loaded)
        /\ Instant(dir[filename]["next"]) = Instant(before["next"])

\* a Dormant record that is not due yet went through a whole cycle
C12_Witness ==
    /\ Persisted /\ Dormant(loaded) /\ now < Instant(loaded["next"])
    /\ Dormant(dir[filename])

(***************************************************************************)
(* C13: a cycle whose fetch found the current instance still open and      *)
(* that is renamed into place has created no instance; the persisted       *)
(* current, previous and next are the loaded ones and the record is Live.  *)
(***************************************************************************)
C13_StillOpen ==
    (Persisted /\ IsStillOpen(observed)) =>
        /\ created = {}
        /\ \A k \in {"current", "previous", "next"} :
              dir[filename][k] = loaded[k]
        /\ Live(dir[filename])

\* the open instance of a record that was respawned before was observed
C13_Witness ==
    /\ Persisted /\ IsStillOpen(observed)
    /\ loaded["previous"] # None

\* the transition the fetch observed needs a slot of the repeat policy that
\* the loaded record does not have
PolicyMissing ==
    \/ IsNotFound(observed) /\ loaded["repeat"]["on deletion"] = None
    \/ IsCompleted(observed) /\ loaded["repeat"]["on completion"] = None

(***************************************************************************)
(* C14: when the fetch observes the instance gone and the record has no    *)
(* "on deletion" policy, or completed and it has no "on completion"        *)
(* policy, the cycle fails as a configuration error: no instance is        *)
(* created, the record on disk is the one the cycle loaded, still Live,    *)
(* and the close-out begun in memory is dropped.                           *)
(***************************************************************************)
C14_MissingPolicy ==
    PolicyMissing =>
        /\ pc = "raised"
        /\ failure.kind = "ConfigurationError"
        /\ created = {}
        /\ filename \notin done
        /\ dir[filename] = before
        /\ Live(dir[filename])
        /\ task_data = None

\* a completion was observed for a record that only has an "on deletion"
\* policy
C14_Witness ==
    /\ PolicyMissing
    /\ IsCompleted(observed)
    /\ loaded["repeat"]["on deletion"] # None

(***************************************************************************)
(* A directory in which record "b" was left with neither current nor next  *)
(* (the file was written by hand, or its bootstrap never ran to the end);  *)
(* record "a" is a bootstrapped record as before.                          *)
(***************************************************************************)
blank(f) ==
    [bootstrapped(f, id_of(f), interval(1), interval(1))
        EXCEPT !["current"] = None]

InitBlank ==
    /\ dir = [f \in Files |->
                IF f = <<"a">>
                THEN yaml_safe_dump(bootstrapped(f, id_of(f), interval(1),
                                                 interval(1)))
                ELSE yaml_safe_dump(blank(f))]
    /\ remote = <<first_todo(<<"a">>)>>
    /\ tags = {RECURRING_TAG_NAME}
    /\ now = 0
    /\ ticks = 0
    /\ pc = "idle"
    /\ listing = {}
    /\ filename = NoName
    /\ task_data = None
    /\ temp_path = NoName
    /\ before = None
    /\ observed = None
    /\ closed = None
    /\ created = {}
    /\ done = {}
    /\ skipped = {}
    /\ failure = NoFailure

SpecBlank == InitBlank /\ [][Next]_vars

\* the cycle loaded a record that has neither a current instance nor a next
\* time
Blank(d) == d["current"] = None /\ d["next"] = None

(***************************************************************************)
(* C15: a record loaded with current = null and next = null is an error:   *)
(* its cycle fails, so no cycle that loaded such a record is renamed into  *)
(* place.                                                                  *)
(***************************************************************************)
C15_BlankFails ==
    (before # None /\ Blank(loaded)) => ~Persisted

(***************************************************************************)
(* The normalisation of lines 75-121 on its own: the record yaml.safe_load *)
(* returned is drawn from the shapes a record file can have, normalised,   *)
(* and normalised once more.                                               *)
(***************************************************************************)
Merge(f, g) ==
    [k \in (DOMAIN f) \cup (DOMAIN g) |-> IF k \in DOMAIN g THEN g[k] ELSE f[k]]

NoFields == [k \in {} |-> None]

\* how the loader hands over a timestamp: PyYAML up to 5.2 returns a naive
\* datetime in UTC (the loader lines 66-70 describe), PyYAML from 5.3 on a
\* timezone-aware datetime with the offset the document gives, which is
\* +00:00 for a time of the API and +01:00 for datetime.now(TZ) in summer
StampStyles == {"naive", "utc", "london"}

\* the datetime loaded for the instant t
Stamp(style, t) ==
    CASE style = "naive" -> Naive(t)
      [] style = "utc" -> Aware(t, 0)
      [] style = "london" -> Aware(t + 60 * 60, 60 * 60)

\* the old and the new name of the title field
TitleFields(i) ==
    CASE i = 0 -> [text |-> "old"]
      [] i = 1 -> [title |-> "new"]
      [] i = 2 -> [text |-> "old", title |-> "new"]

NotesFields(i) ==
    CASE i = 0 -> NoFields
      [] i = 1 -> [notes |-> None]
      [] i = 2 -> [notes |-> "n"]

ChecklistFields(i) ==
    CASE i = 0 -> NoFields
      [] i = 1 -> [checklist |-> <<>>]
      [] i = 2 -> [checklist |-> <<"c1">>]

\* the flat repeat policy of old records and the split one
RepeatFields(i) ==
    CASE i = 0 -> [repeat |-> [min |-> 1, max |-> 2]]
      [] i = 1 -> [repeat |-> [k \in {"on completion", "on deletion"} |->
                                IF k = "on completion" THEN interval(1)
                                ELSE None]]
      [] i = 2 -> [repeat |-> [k \in {"on completion", "on deletion"} |->
                                interval(1)]]

\* Live after the bootstrap, Live after a respawn, Dormant after a
\* completion, Dormant after a deletion (previous has no 'completed')
InstanceFields(i, style) ==
    CASE i = 0 -> [current |-> [id |-> 1, created |-> Stamp(style, 0)],
                   next |-> None, previous |-> None]
      [] i = 1 -> [current |-> [id |-> 2,
                                created |-> Stamp(style, SECONDS_PER_DAY)],
                   next |-> None,
                   previous |-> [id |-> 1, created |-> Stamp(style, 0),
                                 completed |-> Stamp(style, 60)]]
      [] i = 2 -> [current |-> None,
                   next |-> Stamp(style, SECONDS_PER_DAY),
                   previous |-> [id |-> 1, created |-> Stamp(style, 0),
                                 completed |-> Stamp(style, 60)]]
      [] i = 3 -> [current |-> None,
                   next |-> Stamp(style, SECONDS_PER_DAY),
                   previous |-> [id |-> 1, created |-> Stamp(style, 0)]]

InitNorm ==
    /\ \E style \in StampStyles, i \in 0 .. 3, t \in 0 .. 2, n \in 0 .. 2,
          c \in 0 .. 2, r \in 0 .. 2 :
          task_data = Merge(InstanceFields(i, style),
                        Merge(TitleFields(t),
                          Merge(NotesFields(n),
                            Merge(ChecklistFields(c), RepeatFields(r)))))
    /\ before = task_data
    /\ pc = "loaded"
    /\ filename = <<"a">>
    /\ dir = [f \in {} |-> None]
    /\ remote = <<>>
    /\ tags = {RECURRING_TAG_NAME}
    /\ now = 0
    /\ ticks = 0
    /\ listing = {}
    /\ temp_path = NoName
    /\ observed = None
    /\ closed = None
    /\ created = {}
    /\ done = {}
    /\ skipped = {}
    /\ failure = NoFailure

\* lines 75-121 on the loaded record
Normalize ==
    /\ pc = "loaded"
    /\ ~Raised(normalize(task_data))
    /\ task_data' = normalize(task_data)
    /\ pc' = "normalized"
    /\ UNCHANGED <<dir, remote, tags, now, ticks, listing, filename,
                   temp_path, before, observed, closed, created, done,
                   skipped, failure>>

\* lines 75-121 raise
NormalizeRaises ==
    /\ pc = "loaded"
    /\ Raised(normalize(task_data))
    /\ Abort("MalformedRecord")
    /\ UNCHANGED <<dir, remote, tags, now, ticks, filename, before,
                   observed, closed, created, done, skipped>>

\* lines 75-121 once more, on their own result, which is kept in closed
Renormalize ==
    /\ pc = "normalized"
    /\ ~Raised(normalize(task_data))
    /\ closed' = task_data
    /\ task_data' = normalize(task_data)
    /\ pc' = "renormalized"
    /\ UNCHANGED <<dir, remote, tags, now, ticks, listing, filename,
                   temp_path, before, observed, created, done, skipped,
                   failure>>

NextNorm == Normalize \/ NormalizeRaises \/ Renormalize

SpecNorm == InitNorm /\ [][NextNorm]_vars

\* the timestamps of a record, as a set of <<field, datetime>>
Stamps(d) ==
    (IF d["current"] # None
     THEN {<<"current.created", d["current"]["created"]>>} ELSE {})
    \cup (IF d["next"] # None THEN {<<"next", d["next"]>>} ELSE {})
    \cup (IF d["previous"] # None
          THEN {<<"previous.created", d["previous"]["created"]>>,
                <<"previous.completed", d["previous"]["completed"]>>}
          ELSE {})

\* a record that has nothing left to normalise
CurrentShape(d) ==
    /\ {"title", "notes", "checklist"} \subseteq DOMAIN d
    /\ "text" \notin DOMAIN d
    /\ "min" \notin DOMAIN d["repeat"]
    /\ \A st \in Stamps(d) : st[2].aware /\ st[2].off = 0

(***************************************************************************)
(* C16: normalising a normalised record gives the same record, for every   *)
(* record shape that loads (old or new title field, notes and checklist    *)
(* missing or present, flat or split repeat policy, naive timestamps), and *)
(* normalising a record that is already in the current shape leaves it as  *)
(* it is.                                                                  *)
(***************************************************************************)
C16_Idempotent ==
    /\ pc = "renormalized" => task_data = closed
    /\ (pc = "normalized" /\ CurrentShape(before)) => task_data = before

\* an old record (text, no notes, no checklist, flat policy, naive
\* timestamps) was changed by the first pass and not by the second
C16_Witness ==
    /\ pc = "renormalized"
    /\ DOMAIN before = {"current", "next", "previous", "text", "repeat"}
    /\ "min" \in DOMAIN before["repeat"]
    /\ before["previous"] # None
    /\ ~before["previous"]["created"].aware
    /\ closed # before
    /\ CurrentShape(closed)

(***************************************************************************)
(* C17: normalisation renames 'text' to 'title' only when the record has   *)
(* no 'title': a title the loaded record holds is the title of the         *)
(* normalised record, also when the record holds a 'text' as well.         *)
(***************************************************************************)
C17_TitleKept ==
    pc = "normalized" =>
        /\ "title" \in DOMAIN before => task_data["title"] = before["title"]
        /\ ("title" \notin DOMAIN before /\ "text" \in DOMAIN before) =>
              task_data["title"] = before["text"]

(***************************************************************************)
(* C18: normalisation labels timestamps and never converts them: for       *)
(* current.created, next, previous.created and previous.completed, a naive *)
(* timestamp becomes the same wall-clock time in UTC, and a timestamp that *)
(* carries an offset denotes the same instant after normalisation.         *)
(***************************************************************************)
C18_AnnotateOnly ==
    pc = "normalized" =>
        \A b \in Stamps(before) :
        \E a \in Stamps(task_data) :
            /\ a[1] = b[1]
            /\ IF b[2].aware THEN Instant(a[2]) = Instant(b[2])
               ELSE a[2] = Aware(b[2].wall, 0)

\* both slots of the repeat policy of a record are present
BothSlots(d) ==
    d["repeat"]["on completion"] # None /\ d["repeat"]["on deletion"] # None

(***************************************************************************)
(* C19: a record with both policy slots always comes back to Live after    *)
(* its instance was completed or deleted, if runs go on; in particular no  *)
(* record file reachable from a bootstrapped record makes every later      *)
(* cycle of the record fail: whatever a cycle persisted, the next cycle    *)
(* can load and normalise.                                                 *)
(***************************************************************************)
C19_NoDeadRecord ==
    \A f \in DOMAIN dir :
        (~startswith_dot(f) /\ BothSlots(dir[f])) =>
            ~Raised(normalize(yaml_safe_load(dir[f])))

\* the names in the directory that are not record files: what mkstemp made
TempFiles == (DOMAIN dir) \ Files

(***************************************************************************)
(* C20: a temporary file left behind by an interrupted run is never loaded *)
(* or reconciled as a record: the name of every temporary file begins with *)
(* '.', the scan passes over every such name, so no cycle runs on one and  *)
(* none is ever renamed into place as a record.                            *)
(***************************************************************************)
C20_TempSkipped ==
    /\ temp_path # NoName => temp_path[1] = "."
    /\ \A n \in TempFiles : n[1] = "." /\ n \notin done
    /\ pc \in InCycle => filename \notin TempFiles
    /\ \A n \in skipped : n[1] = "."

\* a later run passed over the temporary file of a stopped run and went on
\* to the cycle of the record
C20_Witness ==
    /\ pc = "resolve"
    /\ \E n \in skipped : n \in DOMAIN dir /\ dir[n] = AbandonedFile
====
